---- MODULE Spec2Model ----
(***************************************************************************)
(* A model of gmap_scrap.py: the BusinessList store (business_list and     *)
(* seen_businesses), the foreground scrape loop of main() and the          *)
(* threading.Timer thread that runs BusinessList.auto_save.                *)
(*                                                                         *)
(* The page (Playwright) and the file system are the environment: every    *)
(* page call may raise, the number of rendered result anchors and the      *)
(* end-of-list marker change on a scroll, each extraction yields some      *)
(* record, each file write may raise.                                      *)
(***************************************************************************)
EXTENDS Integers, Sequences, FiniteSets, TLC

(* ---- program constants ---- *)
MAX_SCROLL_ATTEMPTS == 10
MAX_CLICK_RETRIES == 5

(* ---- bounds of the model ---- *)
NumCats == 2        \* len(selected_business_category)
MaxTarget == 2      \* largest num_listings_to_capture tried
MaxRendered == 2    \* largest number of result anchors the page renders
MaxFires == 2       \* how many times a timer may expire in one run

(* ---- records ---- *)
Names == {"A", "B"}
Addresses == {"No Address"}
Phones == {"No Phone"}
Websites == {"No Website", "a.example"}

Business == [name : Names, address : Addresses,
             phone_number : Phones, website : Websites]

\* no Business object (before line 297, or one that was never offered)
NoBusiness == [name |-> "None"]

\* add_business, line 97
UniqueKey(business) ==
    <<business.name, business.address, business.phone_number>>

AlwaysUnseen(unique_key, seen) == TRUE

\* add_business, line 98
IsUnseen(unique_key, seen) == unique_key \notin seen

SeenAfterAddForgets(unique_key, seen) == seen

\* add_business, line 99
SeenAfterAdd(unique_key, seen) == seen \cup {unique_key}

\* line 100 without the append
ListAfterAddDrops(business, list) == list

\* line 100 with insert(0, business) in place of append
ListAfterAddPrepends(business, list) == <<business>> \o list

\* add_business, line 100
ListAfterAdd(business, list) == Append(list, business)

SeenResetOnClear(seen) == {}

\* main, line 361: business_list.business_list.clear() touches the list only
SeenAfterClear(seen) == seen

LoopContinuesOffByOne(scraped, target) == scraped <= target

\* main, line 251
LoopContinues(scraped, target) == scraped < target

StagnationLimitPassed(attempts) == attempts > MAX_SCROLL_ATTEMPTS

\* main, line 342
StagnationLimitReached(attempts) == attempts >= MAX_SCROLL_ATTEMPTS

\* main, line 194 and auto_save, line 119: the tag handed to the next timer
FirstTag == 1
RearmTag(tag, cat) == tag

KeysOf(list) == {UniqueKey(list[i]) : i \in 1..Len(list)}

Cats == 1..NumCats

VARIABLES
    pc,                      \* position of the foreground thread in main()
    catIdx,                  \* index of selected_business_type
    num_listings_to_capture,
    listings_scraped,
    scroll_attempts,
    previously_counted,
    listings,                \* number of handles in the batch of line 253
    idx,                     \* position of the for loop of line 263
    retry_attempt,
    business,                \* the Business of line 297
    added,                   \* line 325
    business_list,
    seen_businesses,
    browser,                 \* "none", "open", "closed"
    exc,                     \* the exception that left main(), or "none"
    tpc,                     \* state of the timer / position in auto_save
    business_type,           \* the tag argument of the pending auto_save
    rIdx,                    \* index of the list iterator inside dataframe()
    rBuf,                    \* rows collected by dataframe() so far
    xlsx,                    \* spreadsheet file per tag
    csv,                     \* delimited-text file per tag
    fires,                   \* number of timer expirations so far
    rendered,                \* page: number of result anchors rendered
    endVisible,              \* page: end-of-list marker visible
    \* history variables (not program state)
    clearedKeys,             \* keys of the records a clear removed from the list
    stopCalled,              \* stop_auto_save has been called
    startedAfterStop,        \* a checkpoint persistence began after the stop
    stagnantScrolls,         \* consecutive scrolls that left the count equal
    sourceOk,                \* the page has not failed or stalled in this session
    readHist,                \* values of business_list since dataframe() began
    ckptXl,                  \* rows the spreadsheet got in this checkpoint
    lastGrowth,              \* what the scroll of this iteration did to the count
                             \* ("none" outside lines 336-352)
    handedMax,               \* highest batch position handed to the extraction
                             \* in this session; forgotten (0) once the target
                             \* is met or the run is aborted, and when the loop
                             \* goes round with the
                             \* position not above the count, since the next
                             \* batch starts at 1 and hands it again
    endedBy,                 \* at "output": the statement that ended the session
    acceptedBy               \* per category, the records add_business accepted

catVars == <<catIdx, num_listings_to_capture, listings_scraped>>
scrollVars == <<scroll_attempts, previously_counted>>
batchVars == <<listings, idx, retry_attempt>>
itemVars == <<business, added>>
procVars == <<browser, exc>>
storeVars == <<business_list, seen_businesses, clearedKeys>>
ckptVars == <<business_type, rIdx, rBuf, fires, ckptXl, startedAfterStop>>
fileVars == <<xlsx, csv>>
pageVars == <<rendered, endVisible>>
sessVars == <<stagnantScrolls, sourceOk>>
obsVars == <<lastGrowth, handedMax, endedBy, acceptedBy>>

fgVars == <<pc, catVars, scrollVars, batchVars, itemVars, procVars>>

vars == <<fgVars, storeVars, tpc, ckptVars, fileVars, pageVars, sessVars,
          stopCalled, readHist, obsVars>>

\* The page of a run: "any" page may raise on every call, shrink or stall its
\* result list and show anything; a "steady" page never raises, grows its
\* list on every scroll until the list ends and then shows the end marker.
Envs == {"any", "steady"}
Faulty(env) == env = "any"

\* dataframe() is iterating business_list (readHist is empty until it begins)
Reading == tpc \in {"xl_read", "csv_read"} /\ readHist # {}

\* the list values a running dataframe() iteration has been exposed to
HistAfter(list) == IF Reading THEN readHist \cup {list} ELSE readHist

Init ==
    /\ pc = "start"
    /\ catIdx = 1
    /\ num_listings_to_capture \in 1..MaxTarget
    /\ listings_scraped = 0
    /\ scroll_attempts = 0
    /\ previously_counted = 0
    /\ listings = 0
    /\ idx = 0
    /\ retry_attempt = 0
    /\ business = NoBusiness
    /\ added = FALSE
    /\ business_list = <<>>
    /\ seen_businesses = {}
    /\ browser = "none"
    /\ exc = "none"
    /\ tpc = "none"
    /\ business_type = FirstTag
    /\ rIdx = 0
    /\ rBuf = <<>>
    /\ xlsx = [c \in Cats |-> <<>>]
    /\ csv = [c \in Cats |-> <<>>]
    /\ fires = 0
    /\ rendered = 0
    /\ endVisible = FALSE
    /\ clearedKeys = {}
    /\ stopCalled = FALSE
    /\ startedAfterStop = FALSE
    /\ stagnantScrolls = 0
    /\ sourceOk = TRUE
    /\ readHist = {}
    /\ ckptXl = <<>>
    /\ lastGrowth = "none"
    /\ handedMax = 0
    /\ endedBy = "none"
    /\ acceptedBy = [c \in Cats |-> <<>>]

(***************************************************************************)
(* The foreground thread: main().  A local whose value is never read again *)
(* (business and added after line 327, retry_attempt after line 284,       *)
(* listings and the loop index after the for loop) is put back to its      *)
(* initial value by the step that follows its last use.                    *)
(***************************************************************************)

\* an exception nobody catches leaves main(): the with-block of line 200
\* closes the browser on the way out, lines 364-366 are skipped
Raise(kind) ==
    /\ pc' = "aborted"
    /\ exc' = kind
    /\ browser' = IF browser = "open" THEN "closed" ELSE browser

\* line 194: the first auto_save runs in the foreground; the list is empty,
\* so it only creates and starts the first timer
StartAutoSave ==
    /\ pc = "start"
    /\ pc' = "launch"
    /\ tpc' = "armed"
    /\ business_type' = FirstTag
    /\ UNCHANGED <<catVars, scrollVars, batchVars, itemVars, procVars>>
    /\ UNCHANGED <<storeVars, fileVars, pageVars, sessVars, stopCalled, readHist>>
    /\ UNCHANGED <<rIdx, rBuf, fires, ckptXl, startedAfterStop>>
    /\ UNCHANGED obsVars

\* lines 200-203
Launch(env) ==
    /\ pc = "launch"
    /\ \/ /\ pc' = "category"
          /\ browser' = "open"
          /\ exc' = exc
       \/ /\ Faulty(env)
          /\ Raise("launch")
    /\ UNCHANGED <<catVars, scrollVars, batchVars, itemVars>>
    /\ UNCHANGED <<storeVars, tpc, ckptVars, fileVars, pageVars, sessVars,
                   stopCalled, readHist>>
    /\ UNCHANGED obsVars

\* lines 205-209: head of the for loop over the selected categories
NextCategory ==
    /\ pc = "category"
    /\ IF catIdx <= NumCats
         THEN /\ pc' = "search"
              /\ listings_scraped' = 0
         ELSE /\ pc' = "stop"
              /\ listings_scraped' = listings_scraped
    /\ UNCHANGED <<catIdx, num_listings_to_capture, scrollVars, batchVars,
                   itemVars, procVars>>
    /\ UNCHANGED <<storeVars, tpc, ckptVars, fileVars, pageVars, sessVars,
                   stopCalled, readHist>>
    /\ UNCHANGED obsVars

\* lines 220-231: the search; any exception skips the city
Search(env) ==
    /\ pc = "search"
    /\ \/ /\ pc' = "count"
          /\ \E n \in (IF Faulty(env) THEN 0 ELSE 1)..MaxRendered : rendered' = n
          /\ endVisible' = FALSE
          /\ sourceOk' = TRUE
       \/ /\ Faulty(env)
          /\ pc' = "output"
          /\ UNCHANGED pageVars
          /\ sourceOk' = FALSE
    /\ stagnantScrolls' = 0
    /\ UNCHANGED <<catVars, scrollVars, batchVars, itemVars, procVars>>
    /\ UNCHANGED <<storeVars, tpc, ckptVars, fileVars, stopCalled, readHist>>
    /\ lastGrowth' = "none"
    /\ handedMax' = 0
    /\ endedBy' = IF pc' = "output" THEN "search" ELSE "none"
    /\ UNCHANGED acceptedBy

\* lines 233-248
Count(env) ==
    /\ pc = "count"
    /\ \/ /\ rendered > 0
          /\ pc' = "while"
          /\ scroll_attempts' = 0
          /\ previously_counted' = rendered
          /\ sourceOk' = sourceOk
       \/ /\ rendered = 0                        \* line 239
          /\ pc' = "output"
          /\ sourceOk' = FALSE
          /\ UNCHANGED scrollVars
       \/ /\ Faulty(env)                         \* line 235
          /\ pc' = "output"
          /\ sourceOk' = FALSE
          /\ UNCHANGED scrollVars
    /\ UNCHANGED <<catVars, batchVars, itemVars, procVars>>
    /\ UNCHANGED <<storeVars, tpc, ckptVars, fileVars, pageVars, stagnantScrolls,
                   stopCalled, readHist>>
    /\ endedBy' = IF pc' = "output" THEN "count" ELSE "none"
    /\ UNCHANGED <<lastGrowth, handedMax, acceptedBy>>

\* line 251
While ==
    /\ pc = "while"
    /\ pc' = IF LoopContinues(listings_scraped, num_listings_to_capture)
               THEN "listall" ELSE "output"
    /\ UNCHANGED <<catVars, scrollVars, batchVars, itemVars, procVars>>
    /\ UNCHANGED <<storeVars, tpc, ckptVars, fileVars, pageVars, sessVars,
                   stopCalled, readHist>>
    /\ endedBy' = IF pc' = "output" THEN "target" ELSE "none"
    /\ UNCHANGED <<lastGrowth, handedMax, acceptedBy>>

\* lines 252-260
ListAll(env) ==
    /\ pc = "listall"
    /\ \/ /\ rendered > 0
          /\ listings' = rendered
          /\ idx' = 1
          /\ pc' = "item"
          /\ sourceOk' = sourceOk
       \/ /\ rendered = 0                        \* line 258
          /\ UNCHANGED <<listings, idx>>
          /\ pc' = "output"
          /\ sourceOk' = FALSE
       \/ /\ Faulty(env)                         \* line 254
          /\ UNCHANGED <<listings, idx>>
          /\ pc' = "output"
          /\ sourceOk' = FALSE
    /\ UNCHANGED <<catVars, scrollVars, retry_attempt, itemVars, procVars>>
    /\ UNCHANGED <<storeVars, tpc, ckptVars, fileVars, pageVars, stagnantScrolls,
                   stopCalled, readHist>>
    /\ endedBy' = IF pc' = "output" THEN "listall" ELSE "none"
    /\ UNCHANGED <<lastGrowth, handedMax, acceptedBy>>

\* line 263 with the last element of the batch left out
BatchDoneEarly(i, n) == i >= n

\* line 263: for listing in listings has no element left
BatchDone(i, n) == i > n

\* lines 263-266: head of the for loop over the batch
Item ==
    /\ pc = "item"
    /\ IF BatchDone(idx, listings)
            \/ listings_scraped >= num_listings_to_capture
         THEN /\ pc' = "scroll"
              /\ listings' = 0
              /\ idx' = 0
         ELSE /\ pc' = "click"
              /\ UNCHANGED <<listings, idx>>
    /\ retry_attempt' = 0
    /\ business' = NoBusiness
    /\ added' = FALSE
    /\ UNCHANGED <<catVars, scrollVars, procVars>>
    /\ UNCHANGED <<storeVars, tpc, ckptVars, fileVars, pageVars, sessVars,
                   stopCalled, readHist>>
    /\ handedMax' = IF pc' = "click" /\ idx > handedMax THEN idx ELSE handedMax
    /\ UNCHANGED <<lastGrowth, endedBy, acceptedBy>>

\* line 276 with one attempt more than MAX_CLICK_RETRIES
RetriesExhaustedLate(failed) == failed > MAX_CLICK_RETRIES

\* line 276: for retry_attempt in range(MAX_CLICK_RETRIES) has no element
\* left after that many failed attempts
RetriesExhausted(failed) == failed >= MAX_CLICK_RETRIES

\* lines 276-284: one activation attempt
Click(env) ==
    /\ pc = "click"
    /\ \/ /\ pc' = "extract"                     \* line 281
          /\ retry_attempt' = retry_attempt
       \/ /\ Faulty(env)                         \* line 282
          /\ retry_attempt' = retry_attempt + 1
          /\ pc' = IF RetriesExhausted(retry_attempt + 1)
                     THEN "extract" ELSE "click"
    /\ UNCHANGED <<catVars, scrollVars, listings, idx, itemVars, procVars>>
    /\ UNCHANGED <<storeVars, tpc, ckptVars, fileVars, pageVars, sessVars,
                   stopCalled, readHist>>
    /\ UNCHANGED obsVars

\* add_business, lines 95-103: the record is accepted when its key is new;
\* the result is the return value with the list and the set as they are left
add_business(b, list, seen) ==
    LET unique_key == UniqueKey(b) IN
    IF IsUnseen(unique_key, seen)
      THEN [added |-> TRUE,
            list  |-> ListAfterAdd(b, list),
            seen  |-> SeenAfterAdd(unique_key, seen)]
      ELSE [added |-> FALSE, list |-> list, seen |-> seen]

\* lines 329-331 with a break in place of the continue: the rest of the
\* batch is dropped
AfterFailedItemBreaks(i, n) == n + 1

\* lines 329-331: the except arm of the item's try prints and continues
\* with the next element of the batch
AfterFailedItem(i, n) == i + 1

\* lines 296-334: the fields are read and the record is offered to the
\* store.  add_business (lines 95-103) is one step: the timer thread reads
\* business_list only, so it cannot tell the insertion of the key from the
\* append.
Extract(env) ==
    /\ pc = "extract"
    /\ \/ \E b \in Business :
            LET res == add_business(b, business_list, seen_businesses)
                isNew == res.added
                scraped == IF isNew THEN listings_scraped + 1 ELSE listings_scraped
            IN /\ business' = b
               /\ added' = isNew
               /\ seen_businesses' = res.seen
               /\ business_list' = res.list
               /\ listings_scraped' = scraped
               /\ IF scraped >= num_listings_to_capture      \* line 333
                    THEN pc' = "scroll" /\ idx' = 0 /\ listings' = 0
                    ELSE pc' = "item" /\ idx' = idx + 1 /\ listings' = listings
       \/ /\ Faulty(env)                         \* line 329
          /\ business' = NoBusiness
          /\ pc' = "item"
          /\ idx' = AfterFailedItem(idx, listings)
          /\ UNCHANGED <<added, business_list, seen_businesses, listings_scraped,
                         listings>>
    /\ retry_attempt' = 0
    /\ readHist' = HistAfter(business_list')
    /\ UNCHANGED <<catIdx, num_listings_to_capture, scrollVars, procVars>>
    /\ UNCHANGED <<clearedKeys, tpc, ckptVars, fileVars, pageVars, sessVars, stopCalled>>
    /\ acceptedBy' = IF added'
                        THEN [acceptedBy EXCEPT ![catIdx] = Append(@, business')]
                        ELSE acceptedBy
    /\ handedMax' = IF listings_scraped' >= num_listings_to_capture
                      THEN 0 ELSE handedMax
    /\ UNCHANGED <<lastGrowth, endedBy>>

\* what a scroll does to the page
ScrollOutcome(env, n, e) ==
    IF Faulty(env)
      THEN TRUE
      ELSE n >= rendered /\ (e <=> n = rendered)

\* lines 336-337: the scroll and the settle pause, outside every try
Scroll(env) ==
    /\ pc = "scroll"
    /\ \/ /\ pc' = "recount"
          /\ \E n \in 0..MaxRendered, e \in BOOLEAN :
               /\ ScrollOutcome(env, n, e)
               /\ rendered' = n
               /\ endVisible' = e
          /\ stagnantScrolls' = IF rendered' = rendered
                                  THEN stagnantScrolls + 1 ELSE 0
          /\ sourceOk' =
               (sourceOk /\ (listings_scraped >= num_listings_to_capture
                             \/ (rendered' > rendered /\ ~endVisible')))
          /\ UNCHANGED procVars
       \/ /\ Faulty(env)
          /\ Raise("page")
          /\ sourceOk' = FALSE
          /\ UNCHANGED <<pageVars, stagnantScrolls>>
    /\ business' = NoBusiness
    /\ added' = FALSE
    /\ UNCHANGED <<catVars, scrollVars, batchVars>>
    /\ UNCHANGED <<storeVars, tpc, ckptVars, fileVars, stopCalled, readHist>>
    /\ lastGrowth' = IF pc' # "recount" THEN lastGrowth
                     ELSE IF rendered' > rendered THEN "larger"
                     ELSE IF rendered' = rendered THEN "equal"
                     ELSE "smaller"
    /\ handedMax' = IF pc' = "aborted" THEN 0 ELSE handedMax
    /\ UNCHANGED <<endedBy, acceptedBy>>

\* lines 339-348
Recount(env) ==
    /\ pc = "recount"
    /\ \/ LET new_count == rendered IN
          /\ IF new_count = previously_counted
               THEN /\ scroll_attempts' = scroll_attempts + 1
                    /\ IF StagnationLimitReached(scroll_attempts + 1)
                         THEN /\ pc' = "output"                  \* line 344
                              /\ previously_counted' = previously_counted
                         ELSE /\ pc' = "endcheck"
                              /\ previously_counted' = new_count
               ELSE /\ scroll_attempts' = 0
                    /\ pc' = "endcheck"
                    /\ previously_counted' = new_count
          /\ UNCHANGED <<procVars, sourceOk>>
       \/ /\ Faulty(env)
          /\ Raise("page")
          /\ sourceOk' = FALSE
          /\ UNCHANGED scrollVars
    /\ UNCHANGED <<catVars, batchVars, itemVars>>
    /\ UNCHANGED <<storeVars, tpc, ckptVars, fileVars, pageVars, stagnantScrolls,
                   stopCalled, readHist>>
    /\ endedBy' = IF pc' = "output" THEN "stagnation" ELSE "none"
    /\ lastGrowth' = IF pc' = "aborted" THEN "none" ELSE lastGrowth
    /\ handedMax' = IF pc' = "aborted" THEN 0 ELSE handedMax
    /\ UNCHANGED acceptedBy

\* line 350 with the marker never looked at
MarkerIgnored(visible) == FALSE

\* line 350: the session ends when the end-of-list marker is visible
MarkerEndsSession(visible) == visible

\* lines 350-352
EndCheck(env) ==
    /\ pc = "endcheck"
    /\ \/ /\ pc' = IF MarkerEndsSession(endVisible) THEN "output" ELSE "while"
          /\ UNCHANGED <<procVars, sourceOk>>
       \/ /\ Faulty(env)
          /\ Raise("page")
          /\ sourceOk' = FALSE
    /\ UNCHANGED <<catVars, scrollVars, batchVars, itemVars>>
    /\ UNCHANGED <<storeVars, tpc, ckptVars, fileVars, pageVars, stagnantScrolls,
                   stopCalled, readHist>>
    /\ endedBy' = IF pc' = "output" THEN "marker" ELSE "none"
    /\ lastGrowth' = IF pc' = "output" THEN lastGrowth ELSE "none"
    /\ handedMax' = IF pc' = "aborted" \/ (pc' = "while" /\ handedMax <= rendered)
                      THEN 0 ELSE handedMax
    /\ UNCHANGED acceptedBy

\* line 358
Output ==
    /\ pc = "output"
    /\ IF business_list # <<>>
         THEN pc' = "save_xl" /\ catIdx' = catIdx
         ELSE pc' = "category" /\ catIdx' = catIdx + 1
    /\ UNCHANGED <<num_listings_to_capture, listings_scraped, scrollVars, batchVars,
                   itemVars, procVars>>
    /\ UNCHANGED <<storeVars, tpc, ckptVars, fileVars, pageVars, sessVars,
                   stopCalled, readHist>>
    /\ lastGrowth' = "none"
    /\ handedMax' = 0
    /\ endedBy' = "none"
    /\ UNCHANGED acceptedBy

\* line 359: the spreadsheet of the category is rewritten
SaveExcel(env) ==
    /\ pc = "save_xl"
    /\ \/ /\ pc' = "save_csv"
          /\ xlsx' = [xlsx EXCEPT ![catIdx] = business_list]
          /\ UNCHANGED procVars
       \/ /\ Faulty(env)
          /\ Raise("io")
          /\ xlsx' = xlsx
    /\ UNCHANGED <<catVars, scrollVars, batchVars, itemVars>>
    /\ UNCHANGED <<storeVars, tpc, ckptVars, csv, pageVars, sessVars,
                   stopCalled, readHist>>
    /\ UNCHANGED obsVars

\* line 360: the rows are appended to the delimited-text file of the category
SaveCsv(env) ==
    /\ pc = "save_csv"
    /\ \/ /\ pc' = "clear"
          /\ csv' = [csv EXCEPT ![catIdx] = @ \o business_list]
          /\ UNCHANGED procVars
       \/ /\ Faulty(env)
          /\ Raise("io")
          /\ csv' = csv
    /\ UNCHANGED <<catVars, scrollVars, batchVars, itemVars>>
    /\ UNCHANGED <<storeVars, tpc, ckptVars, xlsx, pageVars, sessVars,
                   stopCalled, readHist>>
    /\ UNCHANGED obsVars

\* line 361, then the next iteration of the for loop of line 205
Clear ==
    /\ pc = "clear"
    /\ pc' = "category"
    /\ catIdx' = catIdx + 1
    /\ business_list' = <<>>
    /\ seen_businesses' = SeenAfterClear(seen_businesses)
    /\ clearedKeys' = clearedKeys \cup KeysOf(business_list)
    /\ readHist' = HistAfter(<<>>)
    /\ UNCHANGED <<num_listings_to_capture, listings_scraped, scrollVars, batchVars,
                   itemVars, procVars>>
    /\ UNCHANGED <<tpc, ckptVars, fileVars, pageVars, sessVars, stopCalled>>
    /\ UNCHANGED obsVars

\* lines 123-126 called from line 364: Timer.cancel() stops a timer that is
\* still waiting; on a timer that has already expired it does nothing
StopAutoSave ==
    /\ pc = "stop"
    /\ pc' = "close"
    /\ tpc' = IF tpc = "armed" THEN "cancelled" ELSE tpc
    /\ stopCalled' = TRUE
    /\ UNCHANGED <<catVars, scrollVars, batchVars, itemVars, procVars>>
    /\ UNCHANGED <<storeVars, ckptVars, fileVars, pageVars, sessVars, readHist>>
    /\ UNCHANGED obsVars

\* line 366
CloseBrowser ==
    /\ pc = "close"
    /\ pc' = "done"
    /\ browser' = "closed"
    /\ exc' = exc
    /\ UNCHANGED <<catVars, scrollVars, batchVars, itemVars>>
    /\ UNCHANGED <<storeVars, tpc, ckptVars, fileVars, pageVars, sessVars,
                   stopCalled, readHist>>
    /\ UNCHANGED obsVars

\* main() has returned or raised: the interpreter exits and the daemon
\* timer thread (line 120) ends with it
Exit ==
    /\ pc \in {"done", "aborted"}
    /\ pc' = "exited"
    /\ UNCHANGED <<catVars, scrollVars, batchVars, itemVars, procVars>>
    /\ UNCHANGED <<storeVars, tpc, ckptVars, fileVars, pageVars, sessVars,
                   stopCalled, readHist>>
    /\ UNCHANGED obsVars

Foreground(env) ==
    \/ StartAutoSave \/ Launch(env) \/ NextCategory \/ Search(env) \/ Count(env)
    \/ While \/ ListAll(env) \/ Item \/ Click(env) \/ Extract(env) \/ Scroll(env)
    \/ Recount(env) \/ EndCheck(env) \/ Output \/ SaveExcel(env) \/ SaveCsv(env)
    \/ Clear \/ StopAutoSave \/ CloseBrowser \/ Exit

(***************************************************************************)
(* The timer thread: threading.Timer(60, self.auto_save, ...)              *)
(***************************************************************************)

Alive == pc # "exited"

\* Timer.run: the 60 s wait ends and the timer was not cancelled
TimerFire ==
    /\ Alive
    /\ tpc = "armed"
    /\ fires < MaxFires
    /\ tpc' = "check"
    /\ fires' = fires + 1
    /\ UNCHANGED <<business_type, rIdx, rBuf, ckptXl, startedAfterStop>>
    /\ UNCHANGED <<fgVars, storeVars, fileVars, pageVars, sessVars, stopCalled,
                   readHist>>
    /\ UNCHANGED obsVars

\* auto_save, line 113
AutoSaveCheck ==
    /\ Alive
    /\ tpc = "check"
    /\ tpc' = IF business_list # <<>> THEN "xl_read" ELSE "rearm"
    /\ rIdx' = 0
    /\ rBuf' = <<>>
    /\ readHist' = {}
    /\ UNCHANGED <<business_type, fires, ckptXl, startedAfterStop>>
    /\ UNCHANGED <<fgVars, storeVars, fileVars, pageVars, sessVars, stopCalled>>
    /\ UNCHANGED obsVars

\* dataframe(), lines 56-60: one step of the generator over business_list.
\* The list iterator keeps an index and compares it with the length the
\* list has now; the foreground may append or clear between two steps.
DataframeStep ==
    /\ Alive
    /\ tpc \in {"xl_read", "csv_read"}
    /\ readHist' = IF readHist = {} THEN {business_list} ELSE readHist
    /\ startedAfterStop' =
          (startedAfterStop \/ (stopCalled /\ tpc = "xl_read" /\ readHist = {}))
    /\ IF rIdx < Len(business_list)
         THEN /\ rBuf' = Append(rBuf, business_list[rIdx + 1])
              /\ rIdx' = rIdx + 1
              /\ tpc' = tpc
         ELSE /\ tpc' = IF tpc = "xl_read" THEN "xl_write" ELSE "csv_write"
              /\ UNCHANGED <<rBuf, rIdx>>
    /\ UNCHANGED <<business_type, fires, ckptXl>>
    /\ UNCHANGED <<fgVars, storeVars, fileVars, pageVars, sessVars, stopCalled>>
    /\ UNCHANGED obsVars

\* save_to_excel, lines 79-93, called at line 115 with no try around it:
\* an exception ends auto_save, and the thread, before line 119
ExcelWrite ==
    /\ Alive
    /\ tpc = "xl_write"
    /\ \/ /\ xlsx' = [xlsx EXCEPT ![business_type] = rBuf]
          /\ ckptXl' = rBuf
          /\ tpc' = "csv_read"
          /\ rIdx' = 0
          /\ rBuf' = <<>>
          /\ readHist' = {}
       \/ /\ tpc' = "dead"              \* the thread's locals die with it
          /\ xlsx' = xlsx
          /\ ckptXl' = <<>>
          /\ rIdx' = 0
          /\ rBuf' = <<>>
          /\ readHist' = {}
    /\ UNCHANGED <<business_type, fires, startedAfterStop, csv>>
    /\ UNCHANGED <<fgVars, storeVars, pageVars, sessVars, stopCalled>>
    /\ UNCHANGED obsVars

\* save_to_csv, lines 65-75, called at line 116 with no try around it
CsvWrite ==
    /\ Alive
    /\ tpc = "csv_write"
    /\ \/ /\ csv' = [csv EXCEPT ![business_type] = @ \o rBuf]
          /\ tpc' = "rearm"
       \/ /\ tpc' = "dead"
          /\ csv' = csv
    /\ ckptXl' = <<>>                           \* the rows are not read again
    /\ rIdx' = 0
    /\ rBuf' = <<>>
    /\ readHist' = {}
    /\ UNCHANGED <<business_type, fires, startedAfterStop, xlsx>>
    /\ UNCHANGED <<fgVars, storeVars, pageVars, sessVars, stopCalled>>
    /\ UNCHANGED obsVars

\* auto_save, lines 119-121: a new timer is created with the same arguments
\* and started
Rearm ==
    /\ Alive
    /\ tpc = "rearm"
    /\ tpc' = "armed"
    /\ business_type' = RearmTag(business_type, catIdx)
    /\ rIdx' = 0
    /\ rBuf' = <<>>
    /\ ckptXl' = <<>>
    /\ readHist' = {}
    /\ UNCHANGED <<fires, startedAfterStop>>
    /\ UNCHANGED <<fgVars, storeVars, fileVars, pageVars, sessVars, stopCalled>>
    /\ UNCHANGED obsVars

TimerThread ==
    \/ TimerFire \/ AutoSaveCheck \/ DataframeStep \/ ExcelWrite \/ CsvWrite
    \/ Rearm

(***************************************************************************)
(* Specifications                                                          *)
(***************************************************************************)

\* The harvest: main() against any page.  The timer thread writes neither
\* the store nor a variable of main() (every step of TimerThread leaves
\* fgVars and storeVars unchanged), so the foreground behaves as it does
\* in a run in which no timer expires.
Next == Foreground("any")

Spec == Init /\ [][Next]_vars

\* The foreground thread is never suspended for good: whenever main() can
\* take a step it eventually takes one.
HarvestFair == Spec /\ WF_vars(Next)

\* The checkpoints: main() against a steady page, together with the timer
\* thread.
CkptNext == Foreground("steady") \/ TimerThread

CkptSpec == Init /\ [][CkptNext]_vars

TypeOK ==
    /\ pc \in {"start", "launch", "category", "search", "count", "while",
               "listall", "item", "click", "extract", "scroll", "recount",
               "endcheck", "output", "save_xl", "save_csv", "clear", "stop",
               "close", "done", "aborted", "exited"}
    /\ catIdx \in 1..(NumCats + 1)
    /\ listings_scraped \in 0..MaxTarget
    /\ scroll_attempts \in 0..MAX_SCROLL_ATTEMPTS
    /\ retry_attempt \in 0..MAX_CLICK_RETRIES
    /\ tpc \in {"none", "armed", "check", "xl_read", "xl_write", "csv_read",
                "csv_write", "rearm", "cancelled", "dead"}
    /\ business_type \in Cats
    /\ lastGrowth \in {"none", "larger", "equal", "smaller"}
    /\ handedMax \in 0..MaxRendered
    /\ endedBy \in {"none", "search", "count", "target", "listall",
                    "stagnation", "marker"}
    /\ \A c \in Cats : Len(acceptedBy[c]) <= MaxTarget

(***************************************************************************)
(* Properties                                                              *)
(***************************************************************************)

\* add_business is called in this step, with business' as its argument
AddStep == pc = "extract" /\ business' \in Business

\* add_business has just returned (business is dropped by the next step)
JustAdded == pc \in {"item", "scroll"} /\ business \in Business

\* line 361 is executed in this step
ClearStep == pc = "clear" /\ pc' = "category"

Copies(list, unique_key) ==
    Cardinality({i \in 1..Len(list) : UniqueKey(list[i]) = unique_key})

NoDuplicateKeys ==
    \A i, j \in 1..Len(business_list) :
        UniqueKey(business_list[i]) = UniqueKey(business_list[j]) => i = j

\* the session loop of lines 251-352, after the recount of line 339
LoopPcs == {"endcheck", "while", "listall", "item", "click", "extract", "scroll"}

\* a (category, city) session is going on
HarvestPcs == LoopPcs \cup {"search", "count", "recount"}

\* C1, as stated: in every reachable state the set of composite keys of the
\* records in business_list equals seen_businesses.
C1_KeysEqualSeen == KeysOf(business_list) = seen_businesses

\* C1, amended: every key of a record in business_list is in seen_businesses,
\* and every key in seen_businesses belongs to a record that is in
\* business_list or that a per-category clear has removed from it.
C1_KeysInSync ==
    /\ KeysOf(business_list) \subseteq seen_businesses
    /\ seen_businesses = KeysOf(business_list) \cup clearedKeys

\* a later category has accepted a record after a clear: the set holds more
\* keys than the list
C1_Witness ==
    /\ clearedKeys # {}
    /\ business_list # <<>>
    /\ KeysOf(business_list) # seen_businesses

\* C2, as stated: after add_business(r) business_list holds exactly one
\* record with r's key, whatever the store was, and never two records with
\* the same key.
C2_ExactlyOneCopy ==
    /\ NoDuplicateKeys
    /\ JustAdded => Copies(business_list, UniqueKey(business)) = 1

\* C2, amended: after add_business(r) business_list holds at most one record
\* with r's key, and exactly one unless a clear removed the record with that
\* key; a call whose key belongs to a record that is or was in business_list
\* returns False and changes neither business_list nor seen_businesses;
\* business_list never holds two records with the same key.
C2_DedupIdempotent ==
    /\ [](/\ NoDuplicateKeys
          /\ JustAdded =>
               \/ Copies(business_list, UniqueKey(business)) = 1
               \/ /\ Copies(business_list, UniqueKey(business)) = 0
                  /\ UniqueKey(business) \in clearedKeys)
    /\ [][(AddStep /\ UniqueKey(business') \in KeysOf(business_list) \cup clearedKeys)
            => /\ added' = FALSE
               /\ business_list' = business_list
               /\ seen_businesses' = seen_businesses]_vars

\* a second record with a stored key, differing in another field, was
\* refused and the stored copy is still the only one
C2_Witness ==
    /\ JustAdded
    /\ ~added
    /\ Copies(business_list, UniqueKey(business)) = 1
    /\ \A i \in 1..Len(business_list) : business_list[i] # business

\* C3: the per-category clear empties business_list and leaves
\* seen_businesses as it was, and add_business of a record whose key was
\* accepted in an earlier category returns False and appends nothing.
C3_ClearPreservesDedup ==
    [][/\ ClearStep => (business_list' = <<>> /\ seen_businesses' = seen_businesses)
       /\ (AddStep /\ UniqueKey(business') \in clearedKeys)
            => (added' = FALSE /\ business_list' = business_list)]_vars

\* a record of an earlier category was offered again in a later one and
\* refused
C3_Witness ==
    /\ JustAdded
    /\ catIdx > 1
    /\ UniqueKey(business) \in clearedKeys
    /\ ~added
    /\ UniqueKey(business) \notin KeysOf(business_list)

\* C4: listings_scraped is incremented exactly when add_business returns
\* True, never exceeds the target, is 0 when a category begins; once it
\* equals the target no batch is enumerated and no item is clicked or
\* extracted; and a session that the page did not end (no failure, no
\* stall, no end marker before the target) ends with exactly the target.
C4_TargetCount ==
    /\ [](/\ listings_scraped <= num_listings_to_capture
          /\ listings_scraped >= num_listings_to_capture
               => pc \notin {"listall", "click", "extract"}
          /\ pc = "search" => listings_scraped = 0
          /\ (pc = "output" /\ sourceOk)
               => listings_scraped = num_listings_to_capture)
    /\ [][/\ listings_scraped' # listings_scraped
               => \/ AddStep /\ added' /\ listings_scraped' = listings_scraped + 1
                  \/ pc = "category" /\ listings_scraped' = 0
          /\ (AddStep /\ added') => listings_scraped' = listings_scraped + 1
          /\ (AddStep /\ ~added') => listings_scraped' = listings_scraped]_vars

\* the second category has reached its target against a page that kept
\* supplying records
C4_Witness ==
    /\ pc = "output"
    /\ sourceOk
    /\ catIdx = 2
    /\ listings_scraped = num_listings_to_capture
    /\ clearedKeys # {}

\* C5: after MAX_SCROLL_ATTEMPTS consecutive scrolls that left the number
\* of result anchors as it was, the scrape loop of the session has exited;
\* and unless the number of result anchors keeps changing for ever, the
\* foreground eventually is in no session any more.
C5_StagnationEndsSession ==
    /\ [](stagnantScrolls >= MAX_SCROLL_ATTEMPTS => pc \notin LoopPcs)
    /\ \/ <>[](pc \notin HarvestPcs)
       \/ []<><<rendered' # rendered>>_rendered

\* a session ended by stagnation with the target not met
C5_Witness ==
    /\ pc = "output"
    /\ stagnantScrolls = MAX_SCROLL_ATTEMPTS
    /\ scroll_attempts = MAX_SCROLL_ATTEMPTS
    /\ listings_scraped < num_listings_to_capture

\* C6: once stop_auto_save has been called no timer is armed and no
\* checkpoint persistence has begun since.
C6_StopIsFinal == stopCalled => (tpc # "armed" /\ ~startedAfterStop)

\* C7: auto_save never ends without having started the next timer, whether
\* its writes succeeded or failed.
C7_AlwaysRearms == tpc # "dead"

\* C8: the rows a checkpoint is about to write are business_list as it was
\* at one instant of the read, and the delimited-text rows of a checkpoint
\* are the rows its spreadsheet got.
C8_SnapshotAtOneInstant ==
    /\ tpc \in {"xl_write", "csv_write"} => rBuf \in readHist
    /\ tpc = "csv_write" => rBuf = ckptXl

\* C9: a checkpoint that writes while category catIdx is being harvested
\* writes to the files tagged with that category.
C9_TaggedWithCurrentCategory ==
    (tpc \in {"xl_write", "csv_write"} /\ pc \in HarvestPcs)
        => business_type = catIdx

\* C10: no failure of a page call ends the run.
C10_PageFailureNeverAborts == ~(pc = "aborted" /\ exc = "page")

\* C11: an item whose extraction fails is the only one skipped: the failing
\* step leaves business_list, seen_businesses and listings_scraped as they
\* were and moves to the next element of the same batch, and the head of the
\* for loop hands every element it still has to the extractor while the
\* target is not reached.
C11_FailedItemAloneSkipped ==
    [][ /\ (pc = "extract" /\ business' = NoBusiness)
             => /\ business_list' = business_list
                /\ seen_businesses' = seen_businesses
                /\ listings_scraped' = listings_scraped
                /\ listings' = listings
                /\ pc' = "item"
                /\ idx' = idx + 1
        /\ (pc = "item" /\ idx <= listings
                        /\ listings_scraped < num_listings_to_capture)
             => (pc' = "click" /\ idx' = idx /\ listings' = listings) ]_vars

\* an item has just failed and the batch still has an element, which the
\* loop is about to hand to the extractor
C11_Witness ==
    /\ pc = "item"
    /\ business = NoBusiness
    /\ idx >= 2
    /\ idx <= listings
    /\ listings_scraped < num_listings_to_capture
    /\ business_list # <<>>

\* C12: a checkpoint never blocks the foreground.  Whatever the timer thread
\* is doing (waiting, testing, reading, writing, re-arming, ended), an
\* extraction that has reached add_business can take its step, and the step
\* returns True exactly for a key not yet seen, appends exactly the accepted
\* record and records the key: nothing in its result depends on the timer.
C12_AddNeverBlocked ==
    /\ [](pc = "extract" =>
            \A b \in Business : ENABLED (Extract("steady") /\ business' = b))
    /\ [][ AddStep =>
              LET unique_key == UniqueKey(business') IN
              /\ added' = (unique_key \notin seen_businesses)
              /\ business_list' = IF added' THEN Append(business_list, business')
                                            ELSE business_list
              /\ seen_businesses' = seen_businesses \cup {unique_key}
              /\ UNCHANGED <<tpc, ckptVars, fileVars>> ]_vars

\* a record has just been accepted while a checkpoint was half way through
\* its read of business_list
C12_Witness ==
    /\ JustAdded
    /\ added
    /\ tpc \in {"xl_read", "csv_read"}
    /\ rIdx >= 1
    /\ Len(business_list) > rIdx

\* C13: in a run that started the timer, the browser session is closed only
\* after stop_auto_save has been called, on every path by which the run
\* ends.
C13_StopBeforeClose ==
    (browser = "closed" /\ tpc # "none") => stopCalled

\* C14: with the store in any state the run reaches, add_business of a then
\* b and of b then a leave the same seen_businesses, and business_list is
\* the old list followed by the records that were accepted, in the order of
\* the calls that returned True; every add step of the run appends at the
\* end and moves no element already in the list.
C14_SetCommutesListKeepsOrder ==
    /\ [](\A a, b \in Business :
            LET sa  == add_business(a, business_list, seen_businesses)
                sab == add_business(b, sa.list, sa.seen)
                sb  == add_business(b, business_list, seen_businesses)
                sba == add_business(a, sb.list, sb.seen)
            IN /\ sab.seen = sba.seen
               /\ sab.list = business_list
                                \o (IF sa.added THEN <<a>> ELSE <<>>)
                                \o (IF sab.added THEN <<b>> ELSE <<>>)
               /\ sba.list = business_list
                                \o (IF sb.added THEN <<b>> ELSE <<>>)
                                \o (IF sba.added THEN <<a>> ELSE <<>>))
    /\ [][ AddStep =>
              business_list' = IF added'
                                 THEN Append(business_list, business')
                                 ELSE business_list ]_vars

\* two records were accepted in an order a sort by name would change, and
\* the list holds them in the order they were accepted
C14_Witness ==
    /\ JustAdded
    /\ added
    /\ Len(business_list) = 2
    /\ business_list[1].name = "B"
    /\ business_list[2] = business
    /\ business.name = "A"

C16_ResetOnlyOnGrowth ==
    /\ scroll_attempts \in 0..MAX_SCROLL_ATTEMPTS
    /\ (pc = "endcheck" /\ lastGrowth \in {"equal", "smaller"})
         => scroll_attempts >= 1
    /\ (pc = "endcheck" /\ scroll_attempts = 0) => lastGrowth = "larger"

\* C17: once a scroll has made the end-of-list marker visible, the session
\* enumerates no further batch and issues no further scroll: the only
\* statements left to it are the recount and the end check, whatever the
\* count and scroll_attempts are, and the end check leaves the loop.
C17_MarkerEndsSession ==
    /\ [](endVisible => pc \notin (LoopPcs \ {"endcheck"}))
    /\ [][ (pc = "endcheck" /\ endVisible) => pc' \in {"output", "aborted"} ]_vars

\* the marker ended a session whose last scroll had loaded new items and
\* whose stagnation counter was 0
C17_Witness ==
    /\ pc = "output"
    /\ endedBy = "marker"
    /\ endVisible
    /\ lastGrowth = "larger"
    /\ scroll_attempts = 0
    /\ listings_scraped < num_listings_to_capture

\* C18: a checkpoint persists only a non-empty snapshot: whenever auto_save
\* is about to write either file, the rows dataframe() collected for it are
\* not empty, in every interleaving with the foreground.
C18_NoEmptyCheckpoint ==
    tpc \in {"xl_write", "csv_write"} => rBuf # <<>>

\* C19: when the run has completed, the delimited-text file of every
\* category holds exactly the records accepted for that category, one row
\* each, in the order they were accepted, however many checkpoints fired.
C19_CsvHoldsAcceptedOnce ==
    pc \in {"done", "exited"} => \A c \in Cats : csv[c] = acceptedBy[c]

\* C20, as stated: when a session has ended by stagnation or by the
\* end-of-list marker with the target not met, every item rendered at that
\* moment has been handed to the extraction at least once in the session.
C20_AllRenderedHanded ==
    (/\ pc = "output"
     /\ endedBy \in {"stagnation", "marker"}
     /\ listings_scraped < num_listings_to_capture)
        => rendered <= handedMax

\* C20, amended: that holds when the session ended by stagnation, or by the
\* marker after a scroll that did not make the count larger; the items that
\* the very scroll which showed the marker has loaded are never enumerated.
C20_AllHandedUnlessLoadedLast ==
    (/\ pc = "output"
     /\ endedBy \in {"stagnation", "marker"}
     /\ listings_scraped < num_listings_to_capture
     /\ lastGrowth # "larger")
        => rendered <= handedMax

\* a session ended by stagnation below its target with two items rendered,
\* both handed to the extraction
C20_Witness ==
    /\ pc = "output"
    /\ endedBy = "stagnation"
    /\ listings_scraped < num_listings_to_capture
    /\ lastGrowth = "equal"
    /\ rendered = 2
    /\ handedMax = 2

====
